---- MODULE Spec2Model ----
(***************************************************************************)
(* Room / turn / game state machine of the Hangman bot (src/bot.py).       *)
(* One action per message handler registered on the dispatcher; a message  *)
(* is processed to completion before the next one (aiogram polling), so    *)
(* every action is one whole handler run, including the handlers it calls. *)
(* Presentation state (names, tags, last_move, status_msg_ids, img_cache)  *)
(* is not modelled: no handler reads it to decide a room update.           *)
(***************************************************************************)
EXTENDS Integers, Sequences, FiniteSets, TLC

(* ------------------------------ bounds -------------------------------- *)
NumUsers == 3      \* user ids 1..NumUsers send messages
NumCodes == 1      \* room codes gen_code can return
MaxLives == 2      \* largest life count a host types
MaxRaises == 1     \* handler runs that end with an exception
NumLetters == 3    \* letters of the alphabet the users type
NumLobbyCodes == 2 \* room codes gen_code can return in the lobby specification

Users == 1..NumUsers
NoUser == -1       \* current_turn_user's value for an empty order
NoCode == "none"   \* user_room.get(uid) is None


(* ------------------------------ texts --------------------------------- *)
\* A text is a sequence of characters, each character a string token: "a" and
\* "A" are a Cyrillic letter and its capital, "lat_w" a Latin letter, "sup2"
\* the superscript two, " " a space; a room code is typed as one token.
\* ALLOWED of the source, each Cyrillic letter written by its transliteration
\* (the module is ASCII): "a" is U+0430, "b" U+0431, ... "ya" U+044F, "-" itself.
RussianAlphabet ==
  << "a", "b", "v", "g", "d", "e", "yo", "zh", "z", "i", "j", "k", "l", "m",
     "n", "o", "p", "r", "s", "t", "u", "f", "h", "c", "ch", "sh", "sch",
     "hard", "y", "soft", "eh", "yu", "ya", "-" >>

ALLOWED == { RussianAlphabet[i] : i \in 1..Len(RussianAlphabet) }

Typed == { RussianAlphabet[i] : i \in 1..NumLetters }

CodeToken(i) ==
  CASE i = 1 -> "K1" [] i = 2 -> "K2" [] i = 3 -> "K3" [] i = 4 -> "K4"
    [] OTHER -> "K5"

Codes == { CodeToken(i) : i \in 1..NumCodes }

LobbyCodes == { CodeToken(i) : i \in 1..NumLobbyCodes }

DigitChar(n) ==
  CASE n = 0 -> "0" [] n = 1 -> "1" [] n = 2 -> "2" [] n = 3 -> "3"
    [] n = 4 -> "4" [] n = 5 -> "5" [] n = 6 -> "6" [] n = 7 -> "7"
    [] n = 8 -> "8" [] OTHER -> "9"

AsciiDigits == { DigitChar(n) : n \in 0..9 }

DigitValue(ch) == CHOOSE n \in 0..9 : DigitChar(n) = ch

\* str.lower() and str.upper() on one character
LowerChar(ch) ==
  CASE ch = "A" -> "a" [] ch = "B" -> "b" [] ch = "K1" -> "k1"
    [] ch = "K2" -> "k2" [] ch = "K3" -> "k3" [] ch = "K4" -> "k4"
    [] ch = "K5" -> "k5" [] ch = "LAT_W" -> "lat_w" [] OTHER -> ch

UpperChar(ch) ==
  CASE ch = "a" -> "A" [] ch = "b" -> "B" [] ch = "k1" -> "K1"
    [] ch = "k2" -> "K2" [] ch = "k3" -> "K3" [] ch = "k4" -> "K4"
    [] ch = "k5" -> "K5" [] ch = "lat_w" -> "LAT_W" [] OTHER -> ch

Lower(s) == [i \in 1..Len(s) |-> LowerChar(s[i])]

Upper(s) == [i \in 1..Len(s) |-> UpperChar(s[i])]

RECURSIVE LStrip(_)
LStrip(s) == IF s # << >> /\ Head(s) = " " THEN LStrip(Tail(s)) ELSE s

RECURSIVE RStrip(_)
RStrip(s) ==
  IF s # << >> /\ s[Len(s)] = " " THEN RStrip(SubSeq(s, 1, Len(s) - 1)) ELSE s

Strip(s) == RStrip(LStrip(s))

\* str.isdigit(): non-empty and every character a digit; the superscript
\* two is a digit for isdigit but int() raises ValueError on it.
IsDigit(s) == s # << >> /\ \A i \in 1..Len(s) : s[i] \in AsciiDigits \cup {"sup2"}

CanInt(s) == s # << >> /\ \A i \in 1..Len(s) : s[i] \in AsciiDigits

RECURSIVE IntOf(_)
IntOf(s) ==
  IF s = << >> THEN 0
  ELSE 10 * IntOf(SubSeq(s, 1, Len(s) - 1)) + DigitValue(s[Len(s)])

normalize_word(w) == SelectSeq(Lower(Strip(w)), LAMBDA ch : ch \in ALLOWED)

CharSet(s) == { s[i] : i \in 1..Len(s) }

\* len(str): a room code token stands for five characters (gen_code, n = 5)
CodeLen == 5

Width(ch) == IF UpperChar(ch) \in { CodeToken(i) : i \in 1..5 } THEN CodeLen ELSE 1

RECURSIVE PyLen(_)
PyLen(s) == IF s = << >> THEN 0 ELSE Width(Head(s)) + PyLen(Tail(s))

(* ----------------------- buttons and commands ------------------------- *)
\* A button text (an emoji and a caption) is one token; a command is the
\* token of its name, followed by its argument if it has one.
BTN_CREATE == << "BTN_CREATE" >>
BTN_JOIN == << "BTN_JOIN" >>
BTN_LEAVE == << "BTN_LEAVE" >>
BTN_LIVES == << "BTN_LIVES" >>
BTN_SETWORD == << "BTN_SETWORD" >>
BTN_START == << "BTN_START" >>
BTN_RESTART == << "BTN_RESTART" >>
BTN_CLOSE == << "BTN_CLOSE" >>
BTN_KICK == << "BTN_KICK" >>
BTN_TRANSFER == << "BTN_TRANSFER" >>
BTN_COMMENT == << "BTN_COMMENT" >>
BTN_CANCEL == << "BTN_CANCEL" >>

Buttons ==
  { BTN_CREATE, BTN_JOIN, BTN_LEAVE, BTN_LIVES, BTN_SETWORD, BTN_START,
    BTN_RESTART, BTN_CLOSE, BTN_KICK, BTN_TRANSFER, BTN_COMMENT, BTN_CANCEL }

CommandNames ==
  { "/start", "/create", "/join", "/leave", "/close", "/startgame", "/restart" }

IsCommand(t, name) == t # << >> /\ t[1] = name

Letter(i) == RussianAlphabet[i]

\* What the users type.  Every text can be sent in every dialog state; the
\* dispatcher (Route) decides which handler reads it.
JoinCommands == { << "/join", k >> : k \in Codes \cup { "k1", "K9" } }

\* a life count: too small, the largest typed, a digit int() cannot read
LivesTexts == { << "0" >>, << DigitChar(MaxLives) >>, << "sup2" >>, << "lat_w" >> }

\* an index into a list of up to NumUsers entries, and what is none
IndexTexts ==
  { << DigitChar(n) >> : n \in 0..NumUsers } \cup { << "sup2" >>, << "lat_w" >> }

SecretTexts == { << " ", "A", "B", " " >>, << Letter(1), "lat_w" >> }

GuessTexts ==
  { << l >> : l \in Typed }
    \cup { << "A" >>, << "lat_w" >>, << " " >> }
    \cup { << Letter(1), Letter(2) >>, << Letter(2), Letter(1) >>,
           << Letter(1), "lat_w" >> }

(* ------------------------------ state --------------------------------- *)
VARIABLES
  rooms_by_code,   \* code -> Room, NoRoom for a code that is not a key
  user_room,       \* user -> code, NoCode for a user that is not a key
  fsm,             \* user -> FSMContext: dialog state and its data
  raised           \* how many handler runs ended with an exception so far

vars == << rooms_by_code, user_room, fsm, raised >>

\* dataclass Room: the attributes an instance has
RoomFields ==
  { "code", "host_id", "players", "order", "names", "tags", "started",
    "max_fails", "secret", "guessed", "fails", "turn_idx", "status_msg_ids",
    "last_move", "img_cache" }

\* room.<name> raises AttributeError unless the dataclass declares <name>
HasAttr(name) == name \in RoomFields

DefaultMaxFails == 6

Room(code, host_id) ==
  [ code |-> code, host_id |-> host_id, players |-> {}, order |-> << >>,
    started |-> FALSE, max_fails |-> DefaultMaxFails, secret |-> << >>,
    guessed |-> {}, fails |-> 0, turn_idx |-> 0 ]

NoRoom == Room(NoCode, NoUser)

FsmStates ==
  { "none", "JoinFlow.waiting_code", "HostSetup.waiting_lives",
    "HostSetup.waiting_word", "KickFlow.waiting_index",
    "TransferFlow.waiting_index", "CommentFlow.waiting_text" }

FsmClear == [ state |-> "none", candidates |-> << >> ]

\* state.clear(): state and data are dropped
Clear(w, u) == [w EXCEPT !.fsm[u] = FsmClear]

\* state.set_state(s): the data is kept
SetState(w, u, s) == [w EXCEPT !.fsm[u].state = s]

World == [ rooms |-> rooms_by_code, ur |-> user_room, fsm |-> fsm ]

Out(w, res) == [ rooms |-> w.rooms, ur |-> w.ur, fsm |-> w.fsm, res |-> res ]

(* ------------------------------ helpers ------------------------------- *)
get_room_by_user(w, uid) ==
  IF w.ur[uid] = NoCode THEN NoRoom ELSE w.rooms[w.ur[uid]]

current_turn_user(room) ==
  IF room.order = << >> THEN NoUser
  ELSE room.order[(room.turn_idx % Len(room.order)) + 1]

InSeq(x, s) == \E i \in 1..Len(s) : s[i] = x

\* list.remove(x): the first occurrence goes
ListRemove(s, x) ==
  LET i == CHOOSE j \in 1..Len(s) : s[j] = x /\ \A k \in 1..(j - 1) : s[k] # x
  IN  SubSeq(s, 1, i - 1) \o SubSeq(s, i + 1, Len(s))

\* list.index(x)
ListIndex(s, x) ==
  (CHOOSE j \in 1..Len(s) : s[j] = x /\ \A k \in 1..(j - 1) : s[k] # x) - 1

\* the orders in which a set can be iterated
Orderings(S) ==
  { s \in [1..Cardinality(S) -> S] : \A i, j \in 1..Cardinality(S) : s[i] = s[j] => i = j }

PutRoom(w, room) == [w EXCEPT !.rooms[room.code] = room]

(* --------------------- room lifecycle (shared) ------------------------ *)
\* close_room(room): BOT is set by main() before polling starts.  The loop
\* body reads room.status_msg_id right after the first user_room.pop.
close_room(w, room) ==
  IF room.players = {} THEN
    { Out([w EXCEPT !.rooms[room.code] = NoRoom], "ok") }
  ELSE IF ~HasAttr("status_msg_id") THEN
    { Out([w EXCEPT !.ur[p] = NoCode], "raise") : p \in room.players }
  ELSE
    { Out([w EXCEPT !.ur = [x \in Users |-> IF x \in room.players THEN NoCode ELSE @[x]],
                    !.rooms[room.code] = NoRoom], "ok") }

\* reset_game leaving the lives lost in the round before
reset_game_keeps_fails(room) ==
  [room EXCEPT !.started = TRUE, !.guessed = {}, !.turn_idx = 0]

reset_game(room) ==
  [room EXCEPT !.started = TRUE, !.guessed = {}, !.fails = 0, !.turn_idx = 0]

\* start_game without its check for a guesser
start_game_without_guessers(w, room) ==
  IF room.secret = << >> THEN { Out(w, "reject") }
  ELSE { Out(PutRoom(w, reset_game(room)), "ok") }

start_game(w, room) ==
  IF room.secret = << >> THEN { Out(w, "reject") }
  ELSE IF Len(room.order) < 1 THEN { Out(w, "reject") }
  ELSE { Out(PutRoom(w, reset_game(room)), "ok") }

finish(room) == [room EXCEPT !.started = FALSE]

(* ------------------------------ handlers ------------------------------ *)
cmd_start(w, uid) == { Out(Clear(w, uid), "ok") }

\* gen_code() draws the code at random and does not look at rooms_by_code;
\* the codes it can return are the ones the model's registry ranges over
cmd_create(w, uid) ==
  LET w1 == Clear(w, uid) IN
  IF get_room_by_user(w1, uid) # NoRoom THEN { Out(w1, "reject") }
  ELSE
    { LET room == [Room(code, uid) EXCEPT !.players = {uid}]
          w2 == [w1 EXCEPT !.rooms[code] = room, !.ur[uid] = code]
      IN  Out(SetState(w2, uid, "HostSetup.waiting_lives"), "ok")
      : code \in DOMAIN w.rooms }

\* join_by_code queueing a guesser again who is in order already
join_by_code_requeues(w, uid, code) ==
  IF get_room_by_user(w, uid) # NoRoom THEN { Out(w, "reject") }
  ELSE IF code = << >> \/ Len(code) # 1 \/ code[1] \notin DOMAIN w.rooms THEN { Out(w, "reject") }
  ELSE IF w.rooms[code[1]] = NoRoom THEN { Out(w, "reject") }
  ELSE
    LET room == w.rooms[code[1]]
        r1 == [room EXCEPT !.players = @ \cup {uid}]
        r2 == IF uid # r1.host_id
              THEN [r1 EXCEPT !.order = Append(@, uid)] ELSE r1
    IN  { Out([PutRoom(w, r2) EXCEPT !.ur[uid] = code[1]], "ok") }

\* join_by_code queueing whoever joins, the host too
join_by_code_host_queued(w, uid, code) ==
  IF get_room_by_user(w, uid) # NoRoom THEN { Out(w, "reject") }
  ELSE IF code = << >> \/ Len(code) # 1 \/ code[1] \notin DOMAIN w.rooms THEN { Out(w, "reject") }
  ELSE IF w.rooms[code[1]] = NoRoom THEN { Out(w, "reject") }
  ELSE
    LET room == w.rooms[code[1]]
        r1 == [room EXCEPT !.players = @ \cup {uid}]
        r2 == IF ~InSeq(uid, r1.order)
              THEN [r1 EXCEPT !.order = Append(@, uid)] ELSE r1
    IN  { Out([PutRoom(w, r2) EXCEPT !.ur[uid] = code[1]], "ok") }

join_by_code(w, uid, code) ==
  IF get_room_by_user(w, uid) # NoRoom THEN { Out(w, "reject") }
  ELSE IF code = << >> \/ Len(code) # 1 \/ code[1] \notin DOMAIN w.rooms THEN { Out(w, "reject") }
  ELSE IF w.rooms[code[1]] = NoRoom THEN { Out(w, "reject") }
  ELSE
    LET room == w.rooms[code[1]]
        r1 == [room EXCEPT !.players = @ \cup {uid}]
        r2 == IF uid # r1.host_id /\ ~InSeq(uid, r1.order)
              THEN [r1 EXCEPT !.order = Append(@, uid)] ELSE r1
    IN  { Out([PutRoom(w, r2) EXCEPT !.ur[uid] = code[1]], "ok") }

cmd_join(w, uid, text) ==
  IF Len(text) >= 2 THEN
    join_by_code(Clear(w, uid), uid, Upper(Strip(Tail(text))))
  ELSE { Out(SetState(w, uid, "JoinFlow.waiting_code"), "ok") }

join_wait_code(w, uid, text) ==
  join_by_code(Clear(w, uid), uid, Upper(Strip(text)))

\* cmd_leave reads room.status_msg_id after the first two removals
cmd_leave(w, uid) ==
  LET w1 == Clear(w, uid)
      room == get_room_by_user(w1, uid)
  IN
  IF room = NoRoom THEN { Out(w1, "reject") }
  ELSE
    LET r1 == [room EXCEPT !.players = @ \ {uid}]
        w2 == [PutRoom(w1, r1) EXCEPT !.ur[uid] = NoCode]
    IN
    IF ~HasAttr("status_msg_id") THEN { Out(w2, "raise") }
    ELSE
      LET o2 == IF InSeq(uid, r1.order) THEN ListRemove(r1.order, uid) ELSE r1.order
          r2 == IF InSeq(uid, r1.order)
                THEN [r1 EXCEPT !.order = o2,
                                !.turn_idx = IF o2 # << >> THEN @ % Len(o2) ELSE 0]
                ELSE r1
          w3 == PutRoom(w2, r2)
      IN  IF uid = r2.host_id THEN close_room(w3, r2) ELSE { Out(w3, "ok") }

\* cmd_close without its test for the host
cmd_close_by_anyone(w, uid) ==
  LET room == get_room_by_user(w, uid) IN
  IF room = NoRoom THEN { Out(w, "reject") }
  ELSE close_room(w, room)

cmd_close(w, uid) ==
  LET room == get_room_by_user(w, uid) IN
  IF room = NoRoom THEN { Out(w, "reject") }
  ELSE IF room.host_id # uid THEN { Out(w, "reject") }
  ELSE close_room(w, room)

cmd_startgame(w, uid) ==
  LET room == get_room_by_user(w, uid) IN
  IF room = NoRoom THEN { Out(w, "reject") }
  ELSE IF room.host_id # uid THEN { Out(w, "reject") }
  ELSE start_game(w, room)

cmd_restart(w, uid) ==
  LET room == get_room_by_user(w, uid) IN
  IF room = NoRoom THEN { Out(w, "reject") }
  ELSE IF room.host_id # uid THEN { Out(w, "reject") }
  ELSE IF room.secret = << >> THEN { Out(w, "reject") }
  ELSE start_game(w, room)

\* the branch host_setup_lives and host_setup_word share for three buttons
SetupButton(w, uid, txt) ==
  IF txt = BTN_CLOSE THEN cmd_close(Clear(w, uid), uid)
  ELSE IF txt = BTN_LEAVE THEN cmd_leave(w, uid)
  ELSE cmd_startgame(Clear(w, uid), uid)

\* host_setup_lives taking zero for a number of lives
host_setup_lives_zero_ok(w, uid, text) ==
  LET txt == Strip(text)
      room == get_room_by_user(w, uid)
  IN
  IF txt \in { BTN_CLOSE, BTN_LEAVE, BTN_START } THEN SetupButton(w, uid, txt)
  ELSE IF room = NoRoom \/ room.host_id # uid THEN { Out(Clear(w, uid), "reject") }
  ELSE IF ~IsDigit(txt) THEN { Out(w, "reject") }
  ELSE IF ~CanInt(txt) THEN { Out(w, "raise") }
  ELSE
    LET r1 == [room EXCEPT !.max_fails = IntOf(txt)]
    IN  { Out(SetState(PutRoom(w, r1), uid, "HostSetup.waiting_word"), "ok") }

host_setup_lives(w, uid, text) ==
  LET txt == Strip(text)
      room == get_room_by_user(w, uid)
  IN
  IF txt \in { BTN_CLOSE, BTN_LEAVE, BTN_START } THEN SetupButton(w, uid, txt)
  ELSE IF room = NoRoom \/ room.host_id # uid THEN { Out(Clear(w, uid), "reject") }
  ELSE IF ~IsDigit(txt) THEN { Out(w, "reject") }
  ELSE IF ~CanInt(txt) THEN { Out(w, "raise") }
  ELSE IF IntOf(txt) < 1 THEN { Out(w, "reject") }
  ELSE
    LET r1 == [room EXCEPT !.max_fails = IntOf(txt)]
    IN  { Out(SetState(PutRoom(w, r1), uid, "HostSetup.waiting_word"), "ok") }

\* host_setup_word keeping the word as typed, capitals and all
host_setup_word_as_typed(w, uid, text) ==
  LET txt == Strip(text)
      room == get_room_by_user(w, uid)
      word == normalize_word(txt)
  IN
  IF txt \in { BTN_CLOSE, BTN_LEAVE, BTN_START } THEN SetupButton(w, uid, txt)
  ELSE IF room = NoRoom \/ room.host_id # uid THEN { Out(Clear(w, uid), "reject") }
  ELSE IF Len(word) < 2 THEN { Out(w, "reject") }
  ELSE
    LET r1 == [room EXCEPT !.secret = txt, !.started = FALSE, !.guessed = {},
                           !.fails = 0, !.turn_idx = 0]
        w1 == Clear(PutRoom(w, r1), uid)
    IN  IF Len(r1.order) >= 1
        THEN { [o EXCEPT !.res = "ok"] : o \in start_game(w1, r1) }
        ELSE { Out(w1, "ok") }

host_setup_word(w, uid, text) ==
  LET txt == Strip(text)
      room == get_room_by_user(w, uid)
      word == normalize_word(txt)
  IN
  IF txt \in { BTN_CLOSE, BTN_LEAVE, BTN_START } THEN SetupButton(w, uid, txt)
  ELSE IF room = NoRoom \/ room.host_id # uid THEN { Out(Clear(w, uid), "reject") }
  ELSE IF Len(word) < 2 THEN { Out(w, "reject") }
  ELSE
    LET r1 == [room EXCEPT !.secret = word, !.started = FALSE, !.guessed = {},
                           !.fails = 0, !.turn_idx = 0]
        w1 == Clear(PutRoom(w, r1), uid)
    IN  IF Len(r1.order) >= 1
        THEN { [o EXCEPT !.res = "ok"] : o \in start_game(w1, r1) }
        ELSE { Out(w1, "ok") }

ui_kick(w, uid) ==
  LET room == get_room_by_user(w, uid) IN
  IF room = NoRoom \/ room.host_id # uid THEN { Out(w, "reject") }
  ELSE IF room.order = << >> THEN { Out(w, "reject") }
  ELSE { Out(SetState(w, uid, "KickFlow.waiting_index"), "ok") }

\* kick_wait reads room.status_msg_id after the target left players and
\* user_room, before it leaves order
kick_wait(w, uid, text) ==
  LET room == get_room_by_user(w, uid)
      txt == Strip(text)
  IN
  IF txt = BTN_CANCEL THEN { Out(Clear(w, uid), "reject") }
  ELSE IF room = NoRoom \/ room.host_id # uid THEN { Out(Clear(w, uid), "reject") }
  ELSE IF ~IsDigit(txt) THEN { Out(w, "reject") }
  ELSE IF ~CanInt(txt) THEN { Out(w, "raise") }
  ELSE IF IntOf(txt) < 1 \/ IntOf(txt) > Len(room.order) THEN { Out(w, "reject") }
  ELSE
    LET kicked_id == room.order[IntOf(txt)]
        r1 == [room EXCEPT !.players = @ \ {kicked_id}]
        w1 == [PutRoom(w, r1) EXCEPT !.ur[kicked_id] = NoCode]
    IN
    IF ~HasAttr("status_msg_id") THEN { Out(w1, "raise") }
    ELSE
      LET o2 == ListRemove(r1.order, kicked_id)
          r2 == [r1 EXCEPT !.order = o2,
                           !.turn_idx = IF o2 # << >> THEN @ % Len(o2) ELSE 0]
          r3 == IF r2.started /\ r2.order = << >>
                THEN [r2 EXCEPT !.started = FALSE] ELSE r2
      IN  { Out(Clear(PutRoom(w1, r3), uid), "ok") }

\* candidates lists room.players without the host, in the set's iteration order
ui_transfer(w, uid) ==
  LET room == get_room_by_user(w, uid) IN
  IF room = NoRoom \/ room.host_id # uid THEN { Out(w, "reject") }
  ELSE IF room.players \ {room.host_id} = {} THEN { Out(w, "reject") }
  ELSE
    { Out([SetState(w, uid, "TransferFlow.waiting_index")
             EXCEPT !.fsm[uid].candidates = cand], "ok")
      : cand \in Orderings(room.players \ {room.host_id}) }

\* transfer_wait renormalising turn_idx without looking for the old guesser
transfer_wait_modulo_only(w, uid, text) ==
  LET room == get_room_by_user(w, uid)
      txt == Strip(text)
      candidates == w.fsm[uid].candidates
  IN
  IF txt = BTN_CANCEL THEN { Out(Clear(w, uid), "reject") }
  ELSE IF room = NoRoom \/ room.host_id # uid THEN { Out(Clear(w, uid), "reject") }
  ELSE IF ~IsDigit(txt) THEN { Out(w, "reject") }
  ELSE IF ~CanInt(txt) THEN { Out(w, "raise") }
  ELSE IF IntOf(txt) < 1 \/ IntOf(txt) > Len(candidates) THEN { Out(w, "reject") }
  ELSE
    LET new_host == candidates[IntOf(txt)]
        old_host == room.host_id
        o1 == IF InSeq(new_host, room.order)
              THEN ListRemove(room.order, new_host) ELSE room.order
        o2 == IF old_host # new_host /\ old_host \in room.players /\ ~InSeq(old_host, o1)
              THEN Append(o1, old_host) ELSE o1
        r1 == [room EXCEPT !.order = o2, !.host_id = new_host]
        r2 == IF o2 # << >>
              THEN [r1 EXCEPT !.turn_idx = @ % Len(o2)]
              ELSE [r1 EXCEPT !.turn_idx = 0, !.started = FALSE]
    IN  { Out(Clear(PutRoom(w, r2), uid), "ok") }

transfer_wait(w, uid, text) ==
  LET room == get_room_by_user(w, uid)
      txt == Strip(text)
      candidates == w.fsm[uid].candidates
  IN
  IF txt = BTN_CANCEL THEN { Out(Clear(w, uid), "reject") }
  ELSE IF room = NoRoom \/ room.host_id # uid THEN { Out(Clear(w, uid), "reject") }
  ELSE IF ~IsDigit(txt) THEN { Out(w, "reject") }
  ELSE IF ~CanInt(txt) THEN { Out(w, "raise") }
  ELSE IF IntOf(txt) < 1 \/ IntOf(txt) > Len(candidates) THEN { Out(w, "reject") }
  ELSE
    LET new_host == candidates[IntOf(txt)]
        old_host == room.host_id
        old_turn == current_turn_user(room)
        o1 == IF InSeq(new_host, room.order)
              THEN ListRemove(room.order, new_host) ELSE room.order
        o2 == IF old_host # new_host /\ old_host \in room.players /\ ~InSeq(old_host, o1)
              THEN Append(o1, old_host) ELSE o1
        r1 == [room EXCEPT !.order = o2, !.host_id = new_host]
        r2 == IF o2 # << >>
              THEN IF InSeq(old_turn, o2)
                   THEN [r1 EXCEPT !.turn_idx = ListIndex(o2, old_turn)]
                   ELSE [r1 EXCEPT !.turn_idx = @ % Len(o2)]
              ELSE [r1 EXCEPT !.turn_idx = 0, !.started = FALSE]
    IN  { Out(Clear(PutRoom(w, r2), uid), "ok") }

ui_comment(w, uid) ==
  IF get_room_by_user(w, uid) = NoRoom THEN { Out(w, "reject") }
  ELSE { Out(SetState(w, uid, "CommentFlow.waiting_text"), "ok") }

\* the comment itself only goes out to the members (broadcast_chat)
comment_wait(w, uid, text) ==
  IF Strip(text) = BTN_CANCEL THEN { Out(Clear(w, uid), "reject") }
  ELSE IF get_room_by_user(w, uid) = NoRoom THEN { Out(Clear(w, uid), "reject") }
  ELSE { Out(Clear(w, uid), "ok") }

ui_create(w, uid) == cmd_create(w, uid)

ui_join(w, uid) == { Out(SetState(w, uid, "JoinFlow.waiting_code"), "ok") }

ui_leave(w, uid) == cmd_leave(w, uid)

ui_close(w, uid) == cmd_close(w, uid)

ui_start(w, uid) == cmd_startgame(w, uid)

ui_restart(w, uid) == cmd_restart(w, uid)

\* guess_rejected without the check for a letter guessed before
guess_rejected_repeat_ok(room, txt) ==
  IF PyLen(txt) = 1
  THEN txt[1] \notin ALLOWED
  ELSE Len(normalize_word(txt)) < 2

\* on_text, the letter and word branches: the guesses it turns down
guess_rejected(room, txt) ==
  IF PyLen(txt) = 1
  THEN txt[1] \notin ALLOWED \/ txt[1] \in room.guessed
  ELSE Len(normalize_word(txt)) < 2

\* guess_applied charging a wrong word two lives
guess_applied_word_costs_two(room, txt) ==
  IF PyLen(txt) = 1
  THEN [room EXCEPT !.guessed = @ \cup {txt[1]},
                    !.fails = IF txt[1] \in CharSet(room.secret) THEN @ ELSE @ + 1]
  ELSE IF normalize_word(txt) = room.secret
       THEN [room EXCEPT !.guessed = @ \cup CharSet(room.secret)]
       ELSE [room EXCEPT !.fails = @ + 2]

\* on_text, the letter and word branches: the room after an accepted guess
guess_applied(room, txt) ==
  IF PyLen(txt) = 1
  THEN [room EXCEPT !.guessed = @ \cup {txt[1]},
                    !.fails = IF txt[1] \in CharSet(room.secret) THEN @ ELSE @ + 1]
  ELSE IF normalize_word(txt) = room.secret
       THEN [room EXCEPT !.guessed = @ \cup CharSet(room.secret)]
       ELSE [room EXCEPT !.fails = @ + 1]

\* guess_outcome leaving the turn with the guesser
guess_outcome_no_advance(w, room) ==
  LET win == room.secret # << >> /\ CharSet(room.secret) \subseteq room.guessed
      lose == room.fails >= room.max_fails
  IN  IF win THEN { Out(PutRoom(w, finish(room)), "win") }
      ELSE IF lose THEN { Out(PutRoom(w, finish(room)), "lose") }
      ELSE { Out(PutRoom(w, room), "ok") }

\* guess_outcome losing one wrong guess late
guess_outcome_late_loss(w, room) ==
  LET win == room.secret # << >> /\ CharSet(room.secret) \subseteq room.guessed
      lose == room.fails > room.max_fails
  IN  IF win THEN { Out(PutRoom(w, finish(room)), "win") }
      ELSE IF lose THEN { Out(PutRoom(w, finish(room)), "lose") }
      ELSE { Out(PutRoom(w, [room EXCEPT !.turn_idx = @ + 1]), "ok") }

\* guess_outcome playing on after the word is complete
guess_outcome_win_goes_on(w, room) ==
  LET lose == room.fails >= room.max_fails
  IN  IF lose THEN { Out(PutRoom(w, finish(room)), "lose") }
      ELSE { Out(PutRoom(w, [room EXCEPT !.turn_idx = @ + 1]), "ok") }

\* on_text, after the guess: victory, defeat or the next guesser's turn
guess_outcome(w, room) ==
  LET win == room.secret # << >> /\ CharSet(room.secret) \subseteq room.guessed
      lose == room.fails >= room.max_fails
  IN  IF win THEN { Out(PutRoom(w, finish(room)), "win") }
      ELSE IF lose THEN { Out(PutRoom(w, finish(room)), "lose") }
      ELSE { Out(PutRoom(w, [room EXCEPT !.turn_idx = @ + 1]), "ok") }

\* the guess of the active guesser: a letter or the whole word
on_text(w, uid, text) ==
  LET room == get_room_by_user(w, uid)
      txt == Lower(Strip(text))
  IN
  IF w.fsm[uid].state # "none" THEN { Out(w, "reject") }
  ELSE IF room = NoRoom THEN { Out(w, "reject") }
  ELSE IF ~room.started \/ room.order = << >> THEN { Out(w, "reject") }
  ELSE IF uid = room.host_id THEN { Out(w, "reject") }
  ELSE IF uid # current_turn_user(room) THEN { Out(w, "reject") }
  ELSE IF txt = << >> THEN { Out(w, "reject") }
  ELSE IF guess_rejected(room, txt) THEN { Out(w, "reject") }
  ELSE guess_outcome(w, guess_applied(room, txt))

(* ------------------------------ dispatch ------------------------------ *)
\* The dispatcher runs the first registered handler whose filters match:
\* the commands, then the handlers in the order the module registers them.
Route(st, text) ==
  IF IsCommand(text, "/start") THEN "cmd_start"
  ELSE IF IsCommand(text, "/create") THEN "cmd_create"
  ELSE IF IsCommand(text, "/join") THEN "cmd_join"
  ELSE IF IsCommand(text, "/leave") THEN "cmd_leave"
  ELSE IF IsCommand(text, "/close") THEN "cmd_close"
  ELSE IF IsCommand(text, "/startgame") THEN "cmd_startgame"
  ELSE IF IsCommand(text, "/restart") THEN "cmd_restart"
  ELSE IF st = "JoinFlow.waiting_code" THEN "join_wait_code"
  ELSE IF st = "HostSetup.waiting_lives" THEN "host_setup_lives"
  ELSE IF st = "HostSetup.waiting_word" THEN "host_setup_word"
  ELSE IF text = BTN_KICK THEN "ui_kick"
  ELSE IF st = "KickFlow.waiting_index" THEN "kick_wait"
  ELSE IF text = BTN_TRANSFER THEN "ui_transfer"
  ELSE IF st = "TransferFlow.waiting_index" THEN "transfer_wait"
  ELSE IF text = BTN_COMMENT THEN "ui_comment"
  ELSE IF st = "CommentFlow.waiting_text" THEN "comment_wait"
  ELSE IF text = BTN_CREATE THEN "ui_create"
  ELSE IF text = BTN_JOIN THEN "ui_join"
  ELSE IF text = BTN_LEAVE THEN "ui_leave"
  ELSE IF text = BTN_CLOSE THEN "ui_close"
  ELSE IF text = BTN_START THEN "ui_start"
  ELSE IF text = BTN_RESTART THEN "ui_restart"
  ELSE "on_text"

Handle(h, uid, text) ==
  CASE h = "cmd_start" -> cmd_start(World, uid)
    [] h = "cmd_create" -> cmd_create(World, uid)
    [] h = "cmd_join" -> cmd_join(World, uid, text)
    [] h = "join_wait_code" -> join_wait_code(World, uid, text)
    [] h = "cmd_leave" -> cmd_leave(World, uid)
    [] h = "cmd_close" -> cmd_close(World, uid)
    [] h = "cmd_startgame" -> cmd_startgame(World, uid)
    [] h = "cmd_restart" -> cmd_restart(World, uid)
    [] h = "host_setup_lives" -> host_setup_lives(World, uid, text)
    [] h = "host_setup_word" -> host_setup_word(World, uid, text)
    [] h = "ui_kick" -> ui_kick(World, uid)
    [] h = "kick_wait" -> kick_wait(World, uid, text)
    [] h = "ui_transfer" -> ui_transfer(World, uid)
    [] h = "transfer_wait" -> transfer_wait(World, uid, text)
    [] h = "ui_comment" -> ui_comment(World, uid)
    [] h = "comment_wait" -> comment_wait(World, uid, text)
    [] h = "ui_create" -> ui_create(World, uid)
    [] h = "ui_join" -> ui_join(World, uid)
    [] h = "ui_leave" -> ui_leave(World, uid)
    [] h = "ui_close" -> ui_close(World, uid)
    [] h = "ui_start" -> ui_start(World, uid)
    [] h = "ui_restart" -> ui_restart(World, uid)
    [] OTHER -> on_text(World, uid, text)

\* the handler the dispatcher picks for the text user uid sends is h
Routed(h, uid, text) == Route(fsm[uid].state, text) = h

\* the handler ran to its end (or to the exception it raises) with outcome o
Processed(o) ==
  /\ rooms_by_code' = o.rooms
  /\ user_room' = o.ur
  /\ fsm' = o.fsm
  /\ raised' = IF o.res = "raise" THEN raised + 1 ELSE raised
  /\ raised' <= MaxRaises

(* ------------------------------ actions ------------------------------- *)
\* One action per handler.  The users send the commands, the buttons that
\* have a handler and the texts above; they do not open the join-by-dialog
\* and comment dialogs (a bare /join, BTN_JOIN, BTN_COMMENT), and a button
\* caption is not sent where a handler would read it as a word.
InputsOf(h) ==
  CASE h = "cmd_start" -> { << "/start" >> }
    [] h = "cmd_create" -> { << "/create" >> }
    [] h = "cmd_join" -> JoinCommands
    [] h = "cmd_leave" -> { << "/leave" >> }
    [] h = "cmd_close" -> { << "/close" >> }
    [] h = "cmd_startgame" -> { << "/startgame" >> }
    [] h = "cmd_restart" -> { << "/restart" >> }
    [] h = "host_setup_lives" -> LivesTexts \cup { BTN_CLOSE, BTN_LEAVE, BTN_START }
    [] h = "host_setup_word" -> SecretTexts \cup { BTN_CLOSE, BTN_LEAVE, BTN_START }
    [] h = "ui_kick" -> { BTN_KICK }
    [] h = "kick_wait" -> IndexTexts \cup { BTN_CANCEL }
    [] h = "ui_transfer" -> { BTN_TRANSFER }
    [] h = "transfer_wait" -> IndexTexts \cup { BTN_CANCEL }
    [] h = "ui_create" -> { BTN_CREATE }
    [] h = "ui_leave" -> { BTN_LEAVE }
    [] h = "ui_close" -> { BTN_CLOSE }
    [] h = "ui_start" -> { BTN_START }
    [] h = "ui_restart" -> { BTN_RESTART }
    [] h = "on_text" -> GuessTexts
    [] OTHER -> {}

Handlers ==
  { "cmd_start", "cmd_create", "cmd_join", "cmd_leave", "cmd_close",
    "cmd_startgame", "cmd_restart", "host_setup_lives", "host_setup_word",
    "ui_kick", "kick_wait", "ui_transfer", "transfer_wait", "ui_create",
    "ui_leave", "ui_close", "ui_start", "ui_restart", "on_text" }

CmdStart ==
  \E u \in Users, t \in InputsOf("cmd_start") :
    /\ Routed("cmd_start", u, t)
    /\ \E o \in Handle("cmd_start", u, t) : Processed(o)

CmdCreate ==
  \E u \in Users, t \in InputsOf("cmd_create") :
    /\ Routed("cmd_create", u, t)
    /\ \E o \in Handle("cmd_create", u, t) : Processed(o)

CmdJoin ==
  \E u \in Users, t \in InputsOf("cmd_join") :
    /\ Routed("cmd_join", u, t)
    /\ \E o \in Handle("cmd_join", u, t) : Processed(o)

CmdLeave ==
  \E u \in Users, t \in InputsOf("cmd_leave") :
    /\ Routed("cmd_leave", u, t)
    /\ \E o \in Handle("cmd_leave", u, t) : Processed(o)

CmdClose ==
  \E u \in Users, t \in InputsOf("cmd_close") :
    /\ Routed("cmd_close", u, t)
    /\ \E o \in Handle("cmd_close", u, t) : Processed(o)

CmdStartgame ==
  \E u \in Users, t \in InputsOf("cmd_startgame") :
    /\ Routed("cmd_startgame", u, t)
    /\ \E o \in Handle("cmd_startgame", u, t) : Processed(o)

CmdRestart ==
  \E u \in Users, t \in InputsOf("cmd_restart") :
    /\ Routed("cmd_restart", u, t)
    /\ \E o \in Handle("cmd_restart", u, t) : Processed(o)

HostSetupLives ==
  \E u \in Users, t \in InputsOf("host_setup_lives") :
    /\ Routed("host_setup_lives", u, t)
    /\ \E o \in Handle("host_setup_lives", u, t) : Processed(o)

HostSetupWord ==
  \E u \in Users, t \in InputsOf("host_setup_word") :
    /\ Routed("host_setup_word", u, t)
    /\ \E o \in Handle("host_setup_word", u, t) : Processed(o)

UiKick ==
  \E u \in Users, t \in InputsOf("ui_kick") :
    /\ Routed("ui_kick", u, t)
    /\ \E o \in Handle("ui_kick", u, t) : Processed(o)

KickWait ==
  \E u \in Users, t \in InputsOf("kick_wait") :
    /\ Routed("kick_wait", u, t)
    /\ \E o \in Handle("kick_wait", u, t) : Processed(o)

UiTransfer ==
  \E u \in Users, t \in InputsOf("ui_transfer") :
    /\ Routed("ui_transfer", u, t)
    /\ \E o \in Handle("ui_transfer", u, t) : Processed(o)

TransferWait ==
  \E u \in Users, t \in InputsOf("transfer_wait") :
    /\ Routed("transfer_wait", u, t)
    /\ \E o \in Handle("transfer_wait", u, t) : Processed(o)

UiCreate ==
  \E u \in Users, t \in InputsOf("ui_create") :
    /\ Routed("ui_create", u, t)
    /\ \E o \in Handle("ui_create", u, t) : Processed(o)

UiLeave ==
  \E u \in Users, t \in InputsOf("ui_leave") :
    /\ Routed("ui_leave", u, t)
    /\ \E o \in Handle("ui_leave", u, t) : Processed(o)

UiClose ==
  \E u \in Users, t \in InputsOf("ui_close") :
    /\ Routed("ui_close", u, t)
    /\ \E o \in Handle("ui_close", u, t) : Processed(o)

UiStart ==
  \E u \in Users, t \in InputsOf("ui_start") :
    /\ Routed("ui_start", u, t)
    /\ \E o \in Handle("ui_start", u, t) : Processed(o)

UiRestart ==
  \E u \in Users, t \in InputsOf("ui_restart") :
    /\ Routed("ui_restart", u, t)
    /\ \E o \in Handle("ui_restart", u, t) : Processed(o)

OnText ==
  \E u \in Users, t \in InputsOf("on_text") :
    /\ Routed("on_text", u, t)
    /\ \E o \in Handle("on_text", u, t) : Processed(o)


\* module load: both registries empty, no dialog open
Init ==
  /\ rooms_by_code = [c \in Codes |-> NoRoom]
  /\ user_room = [u \in Users |-> NoCode]
  /\ fsm = [u \in Users |-> FsmClear]
  /\ raised = 0

Next ==
  \/ CmdStart \/ CmdCreate \/ CmdJoin \/ CmdLeave \/ CmdClose
  \/ CmdStartgame \/ CmdRestart \/ HostSetupLives \/ HostSetupWord
  \/ UiKick \/ KickWait \/ UiTransfer \/ TransferWait
  \/ UiCreate \/ UiLeave \/ UiClose \/ UiStart \/ UiRestart \/ OnText

Spec == Init /\ [][Next]_vars

(* -------------------- the lobby, with two room codes ------------------- *)
\* The same handlers over a registry of NumLobbyCodes codes, for the users'
\* room membership: they send /create, /join <code>, /leave and /close.
LobbyJoinCommands == { << "/join", k >> : k \in LobbyCodes }

LobbyInit ==
  /\ rooms_by_code = [c \in LobbyCodes |-> NoRoom]
  /\ user_room = [u \in Users |-> NoCode]
  /\ fsm = [u \in Users |-> FsmClear]
  /\ raised = 0

LobbyCreate ==
  \E u \in Users :
    /\ Routed("cmd_create", u, << "/create" >>)
    /\ \E o \in Handle("cmd_create", u, << "/create" >>) : Processed(o)

LobbyJoin ==
  \E u \in Users, t \in LobbyJoinCommands :
    /\ Routed("cmd_join", u, t)
    /\ \E o \in Handle("cmd_join", u, t) : Processed(o)

LobbyLeave ==
  \E u \in Users :
    /\ Routed("cmd_leave", u, << "/leave" >>)
    /\ \E o \in Handle("cmd_leave", u, << "/leave" >>) : Processed(o)

LobbyClose ==
  \E u \in Users :
    /\ Routed("cmd_close", u, << "/close" >>)
    /\ \E o \in Handle("cmd_close", u, << "/close" >>) : Processed(o)

LobbyNext == LobbyCreate \/ LobbyJoin \/ LobbyLeave \/ LobbyClose

Lobby == LobbyInit /\ [][LobbyNext]_vars

(* ------------------------------ claims -------------------------------- *)
Live(c) == rooms_by_code[c] # NoRoom

\* user u sends text t and handler h processes it
Sent(h, u, t) == Routed(h, u, t) /\ \E o \in Handle(h, u, t) : Processed(o)

\* the room user u is in, as the handlers resolve it
RoomOf(u) == get_room_by_user(World, u)

\* C1: in every reachable state the host of a room is not in its order
HostNotInOrder ==
  \A c \in Codes : Live(c) => ~InSeq(rooms_by_code[c].host_id, rooms_by_code[c].order)

\* reached: a room with two queued guessers, one of them after its leave or
\* kick was processed (out of players, still in order)
HostNotInOrderWitness ==
  \E c \in Codes :
    /\ Live(c)
    /\ Len(rooms_by_code[c].order) >= 2
    /\ \E g \in Users :
         /\ InSeq(g, rooms_by_code[c].order)
         /\ g \notin rooms_by_code[c].players

\* C2: once the host's leave or close is processed the room is gone from
\* rooms_by_code and no member of it keeps its code in user_room
HostDepartureDestroysRoom ==
  [][ \A u \in Users, h \in { "cmd_leave", "ui_leave", "cmd_close", "ui_close" } :
        \A t \in InputsOf(h) :
          ( /\ RoomOf(u) # NoRoom
            /\ RoomOf(u).host_id = u
            /\ Sent(h, u, t) )
          => /\ rooms_by_code'[RoomOf(u).code] = NoRoom
             /\ \A m \in RoomOf(u).players : user_room'[m] # RoomOf(u).code ]_vars

\* C3: no handler run ends with an exception
NoHandlerRaises == raised = 0

\* C4: a started room has a guesser in order, and a step that empties order
\* leaves the room not started
StartedHasGuessers ==
  \A c \in Codes :
    Live(c) /\ rooms_by_code[c].started => rooms_by_code[c].order # << >>

\* reached: a round whose turn went once round the queue and in which a
\* guesser's leave or kick was processed; its active guesser is defined
StartedHasGuessersWitness ==
  \E c \in Codes :
    /\ Live(c)
    /\ rooms_by_code[c].started
    /\ current_turn_user(rooms_by_code[c]) \in Users
    /\ rooms_by_code[c].turn_idx >= Len(rooms_by_code[c].order)
    /\ \E g \in Users : user_room[g] = NoCode /\ InSeq(g, rooms_by_code[c].order)

\* the guesser whose turn it is: order[turn_idx mod len(order)]
ActiveGuesser(r) == r.order[(r.turn_idx % Len(r.order)) + 1]

\* the guesser after x in order, the first one after the last
Follower(order, x) ==
  LET i == CHOOSE j \in 1..Len(order) : order[j] = x
  IN  order[(i % Len(order)) + 1]

LeaveHandlers == { "cmd_leave", "ui_leave" }

\* a kick of the list entry the host names by a valid index
ValidKick(u, t) ==
  /\ RoomOf(u) # NoRoom
  /\ RoomOf(u).host_id = u
  /\ CanInt(t)
  /\ IntOf(t) \in 1..Len(RoomOf(u).order)

\* C5: after a non-host member's leave the member is out of players and
\* order, has no room, the room stays registered, turn_idx is in range
NonHostLeaveRemovesMember ==
  [][ \A u \in Users, h \in LeaveHandlers : \A t \in InputsOf(h) :
        ( /\ RoomOf(u) # NoRoom
          /\ RoomOf(u).host_id # u
          /\ u \in RoomOf(u).players
          /\ Sent(h, u, t) )
        => LET after == rooms_by_code'[RoomOf(u).code]
           IN  /\ after # NoRoom
               /\ u \notin after.players
               /\ ~InSeq(u, after.order)
               /\ user_room'[u] = NoCode
               /\ IF after.order = << >> THEN after.turn_idx = 0
                  ELSE after.turn_idx < Len(after.order) ]_vars

\* C6: after a kick by a valid index the target is out of players and order,
\* has no room, and the host's kick dialog is closed
KickRemovesTarget ==
  [][ \A u \in Users, t \in InputsOf("kick_wait") :
        ( ValidKick(u, t) /\ Sent("kick_wait", u, t) )
        => LET target == RoomOf(u).order[IntOf(t)]
               after == rooms_by_code'[RoomOf(u).code]
           IN  /\ target \notin after.players
               /\ ~InSeq(target, after.order)
               /\ user_room'[target] = NoCode
               /\ fsm'[u].state = "none" ]_vars

\* C7: when the active guesser of a round is kicked or leaves and guessers
\* remain, the active guesser afterwards is the one that followed it in order
TurnPassesToFollower ==
  [][ /\ \A u \in Users, t \in InputsOf("kick_wait") :
           ( /\ ValidKick(u, t)
             /\ RoomOf(u).started
             /\ Len(RoomOf(u).order) >= 2
             /\ RoomOf(u).order[IntOf(t)] = ActiveGuesser(RoomOf(u))
             /\ Sent("kick_wait", u, t) )
           => ActiveGuesser(rooms_by_code'[RoomOf(u).code])
                = Follower(RoomOf(u).order, ActiveGuesser(RoomOf(u)))
      /\ \A u \in Users, h \in LeaveHandlers : \A t \in InputsOf(h) :
           ( /\ RoomOf(u) # NoRoom
             /\ RoomOf(u).started
             /\ Len(RoomOf(u).order) >= 2
             /\ u = ActiveGuesser(RoomOf(u))
             /\ Sent(h, u, t) )
           => ActiveGuesser(rooms_by_code'[RoomOf(u).code])
                = Follower(RoomOf(u).order, u) ]_vars

\* the texts on_text turns down, in the words of the claim
RejectCase(u, t) ==
  LET r == RoomOf(u)
      txt == Lower(Strip(t))
  IN  /\ r # NoRoom
      /\ r.started
      /\ \/ r.order = << >>
         \/ u # ActiveGuesser(r)
         \/ u = r.host_id
         \/ txt = << >>
         \/ PyLen(txt) = 1 /\ txt[1] \notin ALLOWED
         \/ PyLen(txt) = 1 /\ txt[1] \in r.guessed
         \/ PyLen(txt) > 1 /\ Len(normalize_word(txt)) < 2

\* the guesses that count: the active guesser's new letter or word
AcceptCase(u, t) ==
  LET r == RoomOf(u)
      txt == Lower(Strip(t))
  IN  /\ r # NoRoom
      /\ r.started
      /\ r.order # << >>
      /\ u = ActiveGuesser(r)
      /\ u # r.host_id
      /\ \/ PyLen(txt) = 1 /\ txt[1] \in ALLOWED /\ txt[1] \notin r.guessed
         \/ PyLen(txt) > 1 /\ Len(normalize_word(txt)) >= 2

WrongGuess(r, t) ==
  LET txt == Lower(Strip(t))
  IN  IF PyLen(txt) = 1 THEN ~InSeq(txt[1], r.secret)
      ELSE normalize_word(txt) # r.secret

GameFields(r) ==
  << r.secret, r.guessed, r.fails, r.turn_idx, r.started, r.players, r.order >>

\* C8: a text on_text turns down in a started round leaves secret, guessed,
\* fails, turn_idx, started, players and order as they were
RejectedGuessChangesNothing ==
  [][ \/ rooms_by_code' = rooms_by_code
      \/ \A u \in Users, t \in InputsOf("on_text") :
           ( RejectCase(u, t) /\ Sent("on_text", u, t) )
           => GameFields(rooms_by_code'[RoomOf(u).code]) = GameFields(RoomOf(u)) ]_vars

\* reached: a round with two guessers in which the active guesser can repeat
\* a letter and the other guesser, in no dialog, can write out of turn
RejectedGuessWitness ==
  \E c \in Codes, u, v \in Users :
    /\ Live(c) /\ user_room[u] = c /\ user_room[v] = c
    /\ fsm[u].state = "none" /\ fsm[v].state = "none"
    /\ u # v
    /\ AcceptCase(u, << Letter(3) >>)
    /\ RejectCase(u, << Letter(1) >>)
    /\ RejectCase(v, << Letter(3) >>)
    /\ InSeq(v, rooms_by_code[c].order)

\* C9: an accepted guess that does not end the round adds 1 to turn_idx and
\* hands the turn to the next guesser in order
AcceptedGuessAdvancesTurn ==
  [][ \/ rooms_by_code' = rooms_by_code
      \/ \A u \in Users, t \in InputsOf("on_text") :
           ( /\ AcceptCase(u, t)
             /\ Sent("on_text", u, t)
             /\ rooms_by_code'[RoomOf(u).code].started )
           => LET after == rooms_by_code'[RoomOf(u).code]
              IN  /\ after.turn_idx = RoomOf(u).turn_idx + 1
                  /\ after.order = RoomOf(u).order
                  /\ ActiveGuesser(after) = Follower(RoomOf(u).order, u) ]_vars

\* reached: the turn went round a queue of two guessers, back to the first
AcceptedGuessWitness ==
  \E c \in Codes :
    /\ Live(c)
    /\ rooms_by_code[c].started
    /\ Len(rooms_by_code[c].order) >= 2
    /\ rooms_by_code[c].turn_idx = Len(rooms_by_code[c].order)
    /\ Cardinality(rooms_by_code[c].guessed) = rooms_by_code[c].turn_idx

\* the handlers that begin a round or a room
RoundStarters ==
  { "cmd_create", "ui_create", "cmd_startgame", "ui_start", "cmd_restart",
    "ui_restart", "host_setup_lives", "host_setup_word" }

\* what fails is after user u's text t in a round: one more for a wrong guess
\* that counts, the same otherwise
FailsAfter(u, t) ==
  IF AcceptCase(u, t) /\ WrongGuess(RoomOf(u), t)
  THEN RoomOf(u).fails + 1 ELSE RoomOf(u).fails

\* C10: in a round a guess adds 1 to fails when it is wrong and counts, and
\* nothing otherwise (no run of on_text ends with another value); no message
\* that keeps the round lowers fails or adds more than 1
FailsCountsWrongGuesses ==
  [][ /\ \/ rooms_by_code' = rooms_by_code
         \/ \A u \in Users, t \in InputsOf("on_text") :
              ( /\ RoomOf(u) # NoRoom
                /\ RoomOf(u).started
                /\ rooms_by_code'[RoomOf(u).code].fails # FailsAfter(u, t) )
              => ~Sent("on_text", u, t)
      /\ \/ \A c \in Codes :
              Live(c) /\ rooms_by_code'[c] # NoRoom
              => rooms_by_code'[c].fails
                   \in { rooms_by_code[c].fails, rooms_by_code[c].fails + 1 }
         \/ ~ \E h \in Handlers \ RoundStarters, u \in Users :
                \E t \in InputsOf(h) : Sent(h, u, t) ]_vars

\* reached: a running round after a right letter and a wrong guess
FailsWitness ==
  \E c \in Codes :
    /\ Live(c)
    /\ rooms_by_code[c].started
    /\ rooms_by_code[c].fails = 1
    /\ rooms_by_code[c].guessed \cap CharSet(rooms_by_code[c].secret) # {}
    /\ rooms_by_code[c].turn_idx >= 2

\* every character of the room's secret is guessed
Revealed(r) == r.secret # << >> /\ CharSet(r.secret) \subseteq r.guessed

\* C11: an accepted guess that leaves every character of secret in guessed
\* ends the round: started is false, fails and turn_idx are as before
WinEndsRound ==
  [][ \/ rooms_by_code' = rooms_by_code
      \/ \A u \in Users, t \in InputsOf("on_text") :
           ( /\ AcceptCase(u, t)
             /\ Revealed(rooms_by_code'[RoomOf(u).code])
             /\ Sent("on_text", u, t) )
           => LET after == rooms_by_code'[RoomOf(u).code]
              IN  /\ ~after.started
                  /\ after.fails = RoomOf(u).fails
                  /\ after.turn_idx = RoomOf(u).turn_idx ]_vars

\* reached: a round of two guessers won on its first turn by the whole word,
\* which put every letter of secret into guessed at once
WinWitness ==
  \E c \in Codes :
    /\ Live(c)
    /\ ~rooms_by_code[c].started
    /\ Revealed(rooms_by_code[c])
    /\ Len(rooms_by_code[c].order) >= 2
    /\ rooms_by_code[c].turn_idx = 0
    /\ rooms_by_code[c].fails = 0

\* C12: a round is lost exactly by the wrong guess that makes fails equal to
\* max_fails, not before, and fails never exceeds max_fails
LossExactlyAtMaxFails ==
  [][ /\ \A c \in Codes : rooms_by_code'[c].fails <= rooms_by_code'[c].max_fails
      /\ \/ rooms_by_code' = rooms_by_code
         \/ \A u \in Users, t \in InputsOf("on_text") :
              ( AcceptCase(u, t) /\ Sent("on_text", u, t) )
              => LET before == RoomOf(u)
                     after == rooms_by_code'[RoomOf(u).code]
                     lost == ~after.started /\ ~Revealed(after)
                 IN  /\ ( WrongGuess(before, t) /\ before.fails + 1 = before.max_fails )
                          => lost
                     /\ lost => /\ WrongGuess(before, t)
                                /\ before.fails < before.max_fails
                                /\ after.fails = after.max_fails ]_vars

\* reached: a round lost with all the lives the host typed used up, after a
\* wrong guess that did not yet lose it
LossWitness ==
  \E c \in Codes :
    /\ Live(c)
    /\ ~rooms_by_code[c].started
    /\ ~Revealed(rooms_by_code[c])
    /\ rooms_by_code[c].max_fails = MaxLives
    /\ rooms_by_code[c].fails = rooms_by_code[c].max_fails
    /\ rooms_by_code[c].turn_idx >= 1

\* the ways a host asks for a round: handler and text
StartRequests ==
  { << "cmd_startgame", << "/startgame" >> >>, << "ui_start", BTN_START >>,
    << "cmd_restart", << "/restart" >> >>, << "ui_restart", BTN_RESTART >>,
    << "host_setup_lives", BTN_START >>, << "host_setup_word", BTN_START >> }

RoundFields(r) == << r.secret, r.guessed, r.fails, r.turn_idx, r.started >>

\* the round a start request of its host leaves room r with
RoundAfterStart(r) ==
  IF r.secret = << >> \/ r.order = << >>
  THEN RoundFields(r)
  ELSE << r.secret, {}, 0, 0, TRUE >>

\* C13: a host's start or restart leaves secret, guessed, fails, turn_idx and
\* started alone when secret or order is empty, and otherwise sets started and
\* empties guessed, fails and turn_idx (no such request ends otherwise)
StartResetsRound ==
  [][ \A u \in Users :
        ( /\ RoomOf(u) # NoRoom
          /\ RoomOf(u).host_id = u
          /\ RoundFields(rooms_by_code'[RoomOf(u).code]) # RoundAfterStart(RoomOf(u)) )
        => \A req \in StartRequests : ~Sent(req[1], u, req[2]) ]_vars

\* reached: a round under way, with a life lost and the turn moved on, whose
\* host can ask for a new one
StartWitness ==
  \E c \in Codes :
    /\ Live(c)
    /\ user_room[rooms_by_code[c].host_id] = c
    /\ rooms_by_code[c].started
    /\ rooms_by_code[c].fails >= 1
    /\ rooms_by_code[c].guessed # {}
    /\ rooms_by_code[c].turn_idx >= 1

\* a word the host of a room types in the set-word dialog
WordTyped(u, t) ==
  /\ fsm[u].state = "HostSetup.waiting_word"
  /\ RoomOf(u) # NoRoom
  /\ RoomOf(u).host_id = u
  /\ Strip(t) \notin { BTN_CLOSE, BTN_LEAVE, BTN_START }

\* C14 as stated: a word of fewer than 2 characters after normalisation leaves
\* the room as it was; any other sets secret to the normalised word, empties
\* guessed, fails and turn_idx and sets started to false
SetWordStopsRound ==
  [][ \A u \in Users :
        fsm[u].state = "HostSetup.waiting_word" =>
        \A t \in InputsOf("host_setup_word") :
        ( WordTyped(u, t) /\ Sent("host_setup_word", u, t) )
        => LET after == rooms_by_code'[RoomOf(u).code]
           IN  IF Len(normalize_word(t)) < 2
               THEN after = RoomOf(u)
               ELSE RoundFields(after) = << normalize_word(t), {}, 0, 0, FALSE >> ]_vars

\* C14 amended: as above, but started is false only in a room without
\* guessers; with a guesser in order the same handler starts the round
SetWordResetsRound ==
  [][ \A u \in Users :
        fsm[u].state = "HostSetup.waiting_word" =>
        \A t \in InputsOf("host_setup_word") :
        ( WordTyped(u, t) /\ Sent("host_setup_word", u, t) )
        => LET after == rooms_by_code'[RoomOf(u).code]
           IN  IF Len(normalize_word(t)) < 2
               THEN after = RoomOf(u)
               ELSE /\ RoundFields(after)
                         = << normalize_word(t), {}, 0, 0, RoomOf(u).order # << >> >>
                    /\ after.order = RoomOf(u).order
                    /\ after.players = RoomOf(u).players
                    /\ after.max_fails = RoomOf(u).max_fails ]_vars

\* reached: a host in the set-word dialog of a room that has no word yet
\* and that a guesser has joined
SetWordWitness ==
  \E u \in Users :
       /\ fsm[u].state = "HostSetup.waiting_word"
       /\ WordTyped(u, << " ", "A", "B", " " >>)
       /\ RoomOf(u).order # << >>
       /\ RoomOf(u).secret = << >>

\* C15: the host of every registered room is one of its players, so a
\* transfer only takes effect for a target that is a player when it is applied
HostIsPlayer ==
  \A c \in Codes : Live(c) => rooms_by_code[c].host_id \in rooms_by_code[c].players

\* a transfer to the list entry the host names by a valid index
ValidTransfer(u, t) ==
  /\ fsm[u].state = "TransferFlow.waiting_index"
  /\ RoomOf(u) # NoRoom
  /\ RoomOf(u).host_id = u
  /\ CanInt(t)
  /\ IntOf(t) \in 1..Len(fsm[u].candidates)

\* C16: after a host transfer the guesser who held the turn still holds it
\* if still in order; otherwise turn_idx is reduced modulo the new length of
\* order, 0 for an empty order
TransferKeepsTurn ==
  [][ \A u \in Users :
        fsm[u].state = "TransferFlow.waiting_index" =>
        \A t \in InputsOf("transfer_wait") :
        ( ValidTransfer(u, t) /\ Sent("transfer_wait", u, t) )
        => LET before == RoomOf(u)
               after == rooms_by_code'[RoomOf(u).code]
               old_turn == current_turn_user(before)
           IN  IF InSeq(old_turn, after.order)
               THEN current_turn_user(after) = old_turn
               ELSE after.turn_idx
                      = IF after.order = << >> THEN 0
                        ELSE before.turn_idx % Len(after.order) ]_vars

\* reached: a host choosing the new host in a round where the second guesser
\* in order holds the turn and the first one is on the candidate list
TransferWitness ==
  \E u \in Users :
    /\ fsm[u].state = "TransferFlow.waiting_index"
    /\ RoomOf(u) # NoRoom
    /\ RoomOf(u).host_id = u
    /\ RoomOf(u).started
    /\ Len(RoomOf(u).order) >= 2
    /\ current_turn_user(RoomOf(u)) = RoomOf(u).order[2]
    /\ InSeq(RoomOf(u).order[1], fsm[u].candidates)
    /\ InSeq(RoomOf(u).order[2], fsm[u].candidates)

\* C17: a create uses a code that is not in rooms_by_code, so every room
\* registered before it is registered after it, as it was
CreateUsesFreshCode ==
  [][ \A u \in Users, h \in { "cmd_create", "ui_create" } : \A t \in InputsOf(h) :
        Sent(h, u, t) => \A c \in Codes : Live(c) => rooms_by_code'[c] = rooms_by_code[c] ]_vars

\* C18: create and join are refused to a user who has a room, so every user
\* is in the players of at most one registered room
OneRoomPerUser ==
  \A u \in Users :
    Cardinality({ c \in DOMAIN rooms_by_code :
                    Live(c) /\ u \in rooms_by_code[c].players }) <= 1

\* C19: order holds every user at most once
OrderHasNoRepeats ==
  \A c \in Codes :
    \A i, j \in 1..Len(rooms_by_code[c].order) :
      rooms_by_code[c].order[i] = rooms_by_code[c].order[j] => i = j

\* reached: a room, its host present, whose first guesser in order has no
\* room any more (the leave or kick was processed) and can join it again
OrderWitness ==
  \E c \in Codes, g \in Users :
    /\ Live(c)
    /\ Len(rooms_by_code[c].order) >= 2
    /\ rooms_by_code[c].order[1] = g
    /\ user_room[g] = NoCode
    /\ g \notin rooms_by_code[c].players
    /\ fsm[g].state = "none"
    /\ user_room[rooms_by_code[c].host_id] = c
    /\ rooms_by_code[c].host_id \in rooms_by_code[c].players

\* the host-only requests: handler and text
HostOnlyRequests ==
  { << "cmd_startgame", << "/startgame" >> >>, << "ui_start", BTN_START >>,
    << "cmd_restart", << "/restart" >> >>, << "ui_restart", BTN_RESTART >>,
    << "cmd_close", << "/close" >> >>, << "ui_close", BTN_CLOSE >>,
    << "ui_kick", BTN_KICK >>, << "ui_transfer", BTN_TRANSFER >> }
    \cup { << "kick_wait", t >> : t \in IndexTexts }
    \cup { << "transfer_wait", t >> : t \in IndexTexts }
    \cup { << "host_setup_lives", t >> : t \in LivesTexts \cup { BTN_CLOSE, BTN_START } }
    \cup { << "host_setup_word", t >> : t \in SecretTexts \cup { BTN_CLOSE, BTN_START } }

\* user u is in a room and is not its host
NonHost(u) == RoomOf(u) # NoRoom /\ RoomOf(u).host_id # u

\* C20: a host-only request of a user who is not the host of their room
\* leaves every room and both registries as they were (no such request ends
\* with a change)
NonHostRequestChangesNothing ==
  [][ \A u \in Users :
        ( /\ NonHost(u)
          /\ rooms_by_code' # rooms_by_code \/ user_room' # user_room )
        => \A req \in HostOnlyRequests : ~Sent(req[1], u, req[2]) ]_vars

\* reached: a guesser of a running round, who is not its host, and a user in
\* a host's dialog whose room is no longer theirs to run
NonHostWitness ==
  \E u, v \in Users :
    /\ NonHost(u)
    /\ u \in RoomOf(u).players
    /\ RoomOf(u).started
    /\ fsm[u].state = "none"
    /\ NonHost(v)
    /\ fsm[v].state \in { "HostSetup.waiting_lives", "HostSetup.waiting_word",
                          "KickFlow.waiting_index", "TransferFlow.waiting_index" }

\* C21: after the guess that loses a round every letter of secret is in
\* guessed
LossRevealsSecret ==
  [][ \/ rooms_by_code' = rooms_by_code
      \/ \A u \in Users, t \in InputsOf("on_text") :
           ( /\ AcceptCase(u, t)
             /\ Sent("on_text", u, t)
             /\ ~rooms_by_code'[RoomOf(u).code].started
             /\ rooms_by_code'[RoomOf(u).code].fails
                  >= rooms_by_code'[RoomOf(u).code].max_fails )
           => Revealed(rooms_by_code'[RoomOf(u).code]) ]_vars

\* the room the text "/join <code>" names, as cmd_join reads the code
JoinTarget(t) ==
  LET code == Upper(Strip(Tail(t)))
  IN  IF Len(code) = 1 /\ code[1] \in DOMAIN rooms_by_code
      THEN rooms_by_code[code[1]] ELSE NoRoom

\* user u, in no room, joins as a new guesser the running round text t names
NewGuesserJoins(u, t) ==
  /\ RoomOf(u) = NoRoom
  /\ JoinTarget(t) # NoRoom
  /\ JoinTarget(t).started
  /\ JoinTarget(t).order # << >>
  /\ u # JoinTarget(t).host_id
  /\ ~InSeq(u, JoinTarget(t).order)

\* C22: a new guesser's join during a round leaves the turn with the guesser
\* who held it
JoinKeepsTurn ==
  [][ \A u \in Users, t \in InputsOf("cmd_join") :
        ( NewGuesserJoins(u, t) /\ Sent("cmd_join", u, t) )
        => current_turn_user(rooms_by_code'[JoinTarget(t).code])
             = current_turn_user(JoinTarget(t)) ]_vars

OrderMembersBelong ==
  \A c \in DOMAIN rooms_by_code :
    \A i \in 1..Len(rooms_by_code[c].order) :
      /\ rooms_by_code[c].order[i] \in rooms_by_code[c].players
      /\ user_room[rooms_by_code[c].order[i]] = c

\* C25: a started room is an undecided round: it has a secret and at least one
\* life, fewer wrong guesses than lives, and a character of secret not guessed
StartedIsUndecided ==
  \A c \in DOMAIN rooms_by_code :
    rooms_by_code[c].started =>
      /\ rooms_by_code[c].secret # << >>
      /\ rooms_by_code[c].max_fails >= 1
      /\ rooms_by_code[c].fails < rooms_by_code[c].max_fails
      /\ ~Revealed(rooms_by_code[c])

\* a round with a wrong guess made and a letter of several found goes on
StartedIsUndecidedWitness ==
  \E c \in DOMAIN rooms_by_code :
    /\ rooms_by_code[c].started
    /\ rooms_by_code[c].fails >= 1
    /\ rooms_by_code[c].guessed \cap CharSet(rooms_by_code[c].secret) # {}

\* an accepted guess is processed in the round of room c
AcceptedGuess(c) ==
  \E u \in Users, t \in InputsOf("on_text") :
    /\ AcceptCase(u, t)
    /\ RoomOf(u).code = c
    /\ Sent("on_text", u, t)

\* the round of room c goes on with guesses or wrong guesses taken back, as
\* reset_game does to a round that is running
Restarted(c) ==
  /\ rooms_by_code[c].started
  /\ rooms_by_code'[c].started
  /\ \/ rooms_by_code'[c].fails < rooms_by_code[c].fails
     \/ ~(rooms_by_code[c].guessed \subseteq rooms_by_code'[c].guessed)

\* what an accepted guess adds to: the letters in guessed and the wrong guesses
Progress(r) == Cardinality(r.guessed) + r.fails

\* the program with the guessers playing: an accepted guess that can be made
\* again and again is made
FairPlay == Spec /\ \A c \in Codes : SF_vars(AcceptedGuess(c))

\* C26: a round does not go on forever: an accepted guess takes nothing from
\* guessed or fails and adds to one of them, a started round has made less
\* progress than the alphabet and max_fails allow together, and every started
\* round ends, unless it is restarted again and again
RoundTerminates ==
  /\ [](\A c \in Codes :
          rooms_by_code[c].started =>
            Progress(rooms_by_code[c])
              < Cardinality(ALLOWED) + rooms_by_code[c].max_fails)
  /\ [][ \/ rooms_by_code' = rooms_by_code
         \/ \A u \in Users, t \in InputsOf("on_text") :
              ( AcceptCase(u, t) /\ Sent("on_text", u, t) )
              => LET after == rooms_by_code'[RoomOf(u).code]
                 IN  /\ RoomOf(u).guessed \subseteq after.guessed
                     /\ RoomOf(u).fails <= after.fails
                     /\ Progress(after) > Progress(RoomOf(u)) ]_vars
  /\ \A c \in Codes :
       \/ []<>(~rooms_by_code[c].started)
       \/ []<><<Restarted(c)>>_vars

====
